---------------------------- MODULE Spec2Model ----------------------------
(***************************************************************************)
(* Model of the ClearPath RD radon-testing backend: the test-session state *)
(* machine (test-session-state.service.ts), the timeline calculator, the   *)
(* risk classifier, the test-session and result routes, and certificate    *)
(* generation and numbering.                                               *)
(*                                                                         *)
(* Time is counted in whole days: `now` is the clock, a stored date is the *)
(* day it names.  A nullable column holds <<>> (null) or <<d>> (day d).    *)
(* A request body is a function whose DOMAIN is the set of fields present, *)
(* so `"retrievedAt" \in DOMAIN body` is `body.retrievedAt !== undefined`. *)
(***************************************************************************)
EXTENDS Integers, Sequences, FiniteSets, TLC

(***************************************************************************)
(* Bounds of the model.                                                    *)
(***************************************************************************)
MaxNow == 1

NumProcs == 2

\* How far around each threshold the classified measurements range.
MaxMargin == 12

\* The start dates of a certificate span MaxDays days.
MaxDays == 1600
NumResults == 2

(***************************************************************************)
(* Program constants.                                                      *)
(***************************************************************************)
LONG_TERM_DURATION_DAYS == 91

LONG_TERM_RETRIEVAL_DUE_DAYS == 80

SHORT_TERM_DURATION_DAYS == 4

SHORT_TERM_RETRIEVAL_DUE_DAYS == 2

THRESHOLD_GUIDELINE == 200

THRESHOLD_CAUTION == 600

THRESHOLD_ACTION == 800

MIN_RADON_VALUE == 0

MAX_RADON_VALUE == 10000

SEQUENCE_PAD_WIDTH == 4

VARIABLES
    sessions,      \* test_sessions table: session id -> row
    results,       \* results table: a set of rows
    certificates,  \* certificates table: a set of rows
    now,           \* the clock, in days
    last,          \* the request handled by the last step, and its outcome
    proc,          \* the requests in flight, one per worker, with their locals
    outbox,        \* the sessions whose activation email is being sent
    kitOrders      \* kit_orders table: order id -> row

vars == <<sessions, results, certificates, now, last, proc, outbox, kitOrders>>

\* Spec and SpecExec follow one session: a handler reads and writes only the
\* row of the session its request names.  SpecCert follows NumResults of them.
SessionIds == {1}

Days == 0..MaxNow

Procs == 1..NumProcs

NULL == <<>>

Some(d) == <<d>>

KitTypes == {"long_term", "real_estate_short"}

CertTypes == {"residential", "real_estate"}

SessionStatus ==
    {"ordered", "active", "retrieval_due", "mailed", "results_pending",
     "complete", "expired", "cancelled"}

(***************************************************************************)
(* test-session-state.service.ts                                           *)
(***************************************************************************)
STATE_TRANSITIONS_TerminalReopens ==
    [s \in SessionStatus |->
        CASE s = "ordered"         -> <<"active", "cancelled">>
          [] s = "active"          -> <<"retrieval_due", "cancelled">>
          [] s = "retrieval_due"   -> <<"mailed", "expired", "cancelled">>
          [] s = "mailed"          -> <<"results_pending", "cancelled">>
          [] s = "results_pending" -> <<"complete", "cancelled">>
          [] s = "complete"        -> <<>>
          [] s = "expired"         -> <<"active">>
          [] s = "cancelled"       -> <<>>]

\* A table in which a mailed kit can go back to retrieval_due.
STATE_TRANSITIONS_MailedReturns ==
    [s \in SessionStatus |->
        CASE s = "ordered"         -> <<"active", "cancelled">>
          [] s = "active"          -> <<"retrieval_due", "cancelled">>
          [] s = "retrieval_due"   -> <<"mailed", "expired", "cancelled">>
          [] s = "mailed"          -> <<"results_pending", "retrieval_due", "cancelled">>
          [] s = "results_pending" -> <<"complete", "cancelled">>
          [] OTHER                 -> <<>>]

STATE_TRANSITIONS ==
    [s \in SessionStatus |->
        CASE s = "ordered"         -> <<"active", "cancelled">>
          [] s = "active"          -> <<"retrieval_due", "cancelled">>
          [] s = "retrieval_due"   -> <<"mailed", "expired", "cancelled">>
          [] s = "mailed"          -> <<"results_pending", "cancelled">>
          [] s = "results_pending" -> <<"complete", "cancelled">>
          [] s = "complete"        -> <<>>
          [] s = "expired"         -> <<>>
          [] s = "cancelled"       -> <<>>]

Includes(seq, x) == \E i \in 1..Len(seq) : seq[i] = x

\* The outcome of the validation: ok, or the ConflictError with the current
\* status and the allowed targets its message carries.
validateStatusTransition_NoSameStatus(currentStatus, newStatus) ==
    LET allowedTransitions == STATE_TRANSITIONS[currentStatus]
    IN  IF Includes(allowedTransitions, newStatus)
        THEN [ok |-> TRUE, current |-> currentStatus, allowed |-> allowedTransitions]
        ELSE [ok |-> FALSE, current |-> currentStatus, allowed |-> allowedTransitions]

validateStatusTransition(currentStatus, newStatus) ==
    IF currentStatus = newStatus
    THEN [ok |-> TRUE, current |-> currentStatus,
          allowed |-> STATE_TRANSITIONS[currentStatus]]
    ELSE LET allowedTransitions == STATE_TRANSITIONS[currentStatus]
         IN  IF ~Includes(allowedTransitions, newStatus)
             THEN [ok |-> FALSE, current |-> currentStatus,
                   allowed |-> allowedTransitions]
             ELSE [ok |-> TRUE, current |-> currentStatus,
                   allowed |-> allowedTransitions]

getNextAllowedStatuses(currentStatus) == STATE_TRANSITIONS[currentStatus]

(***************************************************************************)
(* test-session-timeline.service.ts                                        *)
(***************************************************************************)
calculateExpectedCompletionDate(kitType, activatedAt) ==
    LET durationDays == IF kitType = "long_term"
                        THEN LONG_TERM_DURATION_DAYS
                        ELSE SHORT_TERM_DURATION_DAYS
    IN  activatedAt + durationDays

\* A retrieval date computed with the duration of the test.
calculateRetrievalDueAt_UsesDuration(kitType, activatedAt) ==
    LET retrievalDueDays == IF kitType = "long_term"
                            THEN LONG_TERM_DURATION_DAYS
                            ELSE SHORT_TERM_DURATION_DAYS
    IN  activatedAt + retrievalDueDays

calculateRetrievalDueAt(kitType, activatedAt) ==
    LET retrievalDueDays == IF kitType = "long_term"
                            THEN LONG_TERM_RETRIEVAL_DUE_DAYS
                            ELSE SHORT_TERM_RETRIEVAL_DUE_DAYS
    IN  activatedAt + retrievalDueDays

(***************************************************************************)
(* radon-risk.service.ts                                                   *)
(***************************************************************************)
\* A classification whose thresholds belong to the lower zone.
calculateRiskZone_Inclusive(valueBqm3) ==
    IF valueBqm3 <= THRESHOLD_GUIDELINE THEN "below_guideline"
    ELSE IF valueBqm3 <= THRESHOLD_CAUTION THEN "caution"
    ELSE IF valueBqm3 <= THRESHOLD_ACTION THEN "action_required"
    ELSE "urgent_action"

calculateRiskZone(valueBqm3) ==
    IF valueBqm3 < THRESHOLD_GUIDELINE THEN "below_guideline"
    ELSE IF valueBqm3 < THRESHOLD_CAUTION THEN "caution"
    ELSE IF valueBqm3 < THRESHOLD_ACTION THEN "action_required"
    ELSE "urgent_action"

isValidRadonMeasurement(valueBqm3) ==
    valueBqm3 >= MIN_RADON_VALUE /\ valueBqm3 <= MAX_RADON_VALUE

(***************************************************************************)
(* The persistence layer (Prisma): update sets the fields of `data` and    *)
(* leaves the others as they are in the row at the time of the write.      *)
(***************************************************************************)
ApplyUpdate(row, data) ==
    [f \in DOMAIN row |-> IF f \in DOMAIN data THEN data[f] ELSE row[f]]

UpdateSession(ss, id, data) ==
    [ss EXCEPT ![id] = ApplyUpdate(ss[id], data)]

Db == [sessions |-> sessions, results |-> results, certificates |-> certificates]

Outcome(db, result) == [db |-> db, result |-> result]

\* An updateData that stamps the activation on every transition to active.
TransitionUpdateData_AnyActivation(session, newStatus, t) ==
    IF newStatus = "active"
    THEN [status |-> newStatus,
          activatedAt |-> Some(t),
          expectedCompletionDate |->
              Some(calculateExpectedCompletionDate(session.kitType, t)),
          retrievalDueAt |-> Some(calculateRetrievalDueAt(session.kitType, t))]
    ELSE [status |-> newStatus]

\* updateData of executeTransition: the status, and on ordered -> active the
\* activation stamp and the two dates derived from it.
TransitionUpdateData(session, newStatus, t) ==
    IF session.status = "ordered" /\ newStatus = "active"
    THEN [status |-> newStatus,
          activatedAt |-> Some(t),
          expectedCompletionDate |->
              Some(calculateExpectedCompletionDate(session.kitType, t)),
          retrievalDueAt |-> Some(calculateRetrievalDueAt(session.kitType, t))]
    ELSE [status |-> newStatus]

executeTransition(db, testSessionId, newStatus, t) ==
    IF testSessionId \notin DOMAIN db.sessions
    THEN Outcome(db, "Conflict")
    ELSE LET session == db.sessions[testSessionId]
         IN  IF ~validateStatusTransition(session.status, newStatus).ok
             THEN Outcome(db, "Conflict")
             ELSE Outcome(
                    [db EXCEPT !.sessions =
                        UpdateSession(db.sessions, testSessionId,
                            TransitionUpdateData(session, newStatus, t))],
                    "ok")

(***************************************************************************)
(* error-handler.plugin.ts and http-errors.ts: the status code a request   *)
(* is answered with.                                                       *)
(***************************************************************************)
mapPrismaErrorToStatus(code) == IF code = "P2002" THEN 409 ELSE 500

StatusCode(result) ==
    CASE result = "ok"         -> 200
      [] result = "BadRequest" -> 400
      [] result = "ValidationError" -> 400
      [] result = "NotFound"   -> 404
      [] result = "Conflict"   -> 409
      [] OTHER                 -> mapPrismaErrorToStatus(result)

(***************************************************************************)
(* test-sessions.routes.ts                                                 *)
(***************************************************************************)
\* A row created in `ordered`, to be activated later.
ActivatedRow_Ordered(kitType, activatedAt) ==
    [status |-> "ordered",
     kitType |-> kitType,
     activatedAt |-> NULL,
     expectedCompletionDate |-> NULL,
     retrievalDueAt |-> NULL,
     retrievedAt |-> NULL,
     mailedAt |-> NULL]

\* The row POST /test-sessions creates.
ActivatedRow(kitType, activatedAt) ==
    [status |-> "active",
     kitType |-> kitType,
     activatedAt |-> Some(activatedAt),
     expectedCompletionDate |->
         Some(calculateExpectedCompletionDate(kitType, activatedAt)),
     retrievalDueAt |-> Some(calculateRetrievalDueAt(kitType, activatedAt)),
     retrievedAt |-> NULL,
     mailedAt |-> NULL]

\* POST /test-sessions.  `precheck` is the outcome of the checks on the home,
\* the kit order, the serial number and the product SKU, whose tables are
\* outside the model; `id` is the key the database gives the new row.
\* `lookup` is the outcome of the two awaited reads that follow the insert,
\* of the session with its home and of the user: a read that rejects fails
\* the request after the row was created.  When both give a row,
\* sendTestActivatedEmail is started and not awaited (`email`).
CreateTestSessionHandler(db, id, kitType, precheck, lookup, t) ==
    IF precheck # "ok"
    THEN [db |-> db, result |-> precheck, email |-> FALSE]
    ELSE LET activatedAt == t
             db1 == [db EXCEPT !.sessions =
                        [i \in DOMAIN db.sessions \cup {id} |->
                            IF i = id THEN ActivatedRow(kitType, activatedAt)
                            ELSE db.sessions[i]]]
         IN  CASE lookup \in {"sessionLookupFails", "userLookupFails"}
                    -> [db |-> db1, result |-> "InternalError", email |-> FALSE]
               [] lookup = "noUser"
                    -> [db |-> db1, result |-> "ok", email |-> FALSE]
               [] OTHER
                    -> [db |-> db1, result |-> "ok", email |-> TRUE]

\* The fields of the PUT body other than status that are present.
OtherFields(body) ==
    [f \in DOMAIN body \cap {"retrievedAt", "mailedAt"} |-> body[f]]

ApplyOtherFields(db, id, body) ==
    IF DOMAIN OtherFields(body) # {}
    THEN [db EXCEPT !.sessions = UpdateSession(db.sessions, id, OtherFields(body))]
    ELSE db

\* A PUT handler that writes the other fields before it validates the status.
PutTestSessionHandler_FieldsFirst(db, id, body, t) ==
    IF id \notin DOMAIN db.sessions
    THEN Outcome(db, "NotFound")
    ELSE LET session == db.sessions[id]
             db1 == ApplyOtherFields(db, id, body)
         IN  IF ~validateStatusTransition(session.status, body.status).ok
             THEN Outcome(db1, "Conflict")
             ELSE LET done == executeTransition(db1, id, body.status, t)
                  IN  done

\* PUT /test-sessions/:id.  The schema makes body.status mandatory.
PutTestSessionHandler(db, id, body, t) ==
    IF id \notin DOMAIN db.sessions
    THEN Outcome(db, "NotFound")
    ELSE LET session == db.sessions[id]
         IN  IF ~validateStatusTransition(session.status, body.status).ok
             THEN Outcome(db, "Conflict")
             ELSE LET done == executeTransition(db, id, body.status, t)
                  IN  IF done.result # "ok"
                      THEN done
                      ELSE Outcome(ApplyOtherFields(done.db, id, body), "ok")

\* A PATCH retrieve that writes the date to retrievalDueAt.
PatchRetrieveHandler_WrongField(db, id, body, t) ==
    IF id \notin DOMAIN db.sessions
    THEN Outcome(db, "NotFound")
    ELSE LET retrievedAt == IF "retrievedAt" \in DOMAIN body
                            THEN body.retrievedAt ELSE t
         IN  Outcome([db EXCEPT !.sessions =
                         UpdateSession(db.sessions, id,
                             [retrievalDueAt |-> Some(retrievedAt)])],
                     "ok")

\* PATCH /test-sessions/:id/retrieve
PatchRetrieveHandler(db, id, body, t) ==
    IF id \notin DOMAIN db.sessions
    THEN Outcome(db, "NotFound")
    ELSE LET retrievedAt == IF "retrievedAt" \in DOMAIN body
                            THEN body.retrievedAt ELSE t
         IN  Outcome([db EXCEPT !.sessions =
                         UpdateSession(db.sessions, id,
                             [retrievedAt |-> Some(retrievedAt)])],
                     "ok")

\* A PATCH mail that asks for retrieval_due, as the transition table does.
PatchMailHandler_RetrievalDueOnly(db, id, body, t) ==
    IF id \notin DOMAIN db.sessions
    THEN Outcome(db, "NotFound")
    ELSE LET session == db.sessions[id]
             allowedStatuses == <<"retrieval_due">>
         IN  IF ~Includes(allowedStatuses, session.status)
             THEN Outcome(db, "Conflict")
             ELSE LET mailedAt == IF "mailedAt" \in DOMAIN body
                                  THEN body.mailedAt ELSE t
                  IN  Outcome([db EXCEPT !.sessions =
                                  UpdateSession(db.sessions, id,
                                      [status |-> "mailed",
                                       mailedAt |-> Some(mailedAt)])],
                              "ok")

\* PATCH /test-sessions/:id/mail
PatchMailHandler(db, id, body, t) ==
    IF id \notin DOMAIN db.sessions
    THEN Outcome(db, "NotFound")
    ELSE LET session == db.sessions[id]
             allowedStatuses == <<"active", "retrieval_due">>
         IN  IF ~Includes(allowedStatuses, session.status)
             THEN Outcome(db, "Conflict")
             ELSE LET mailedAt == IF "mailedAt" \in DOMAIN body
                                  THEN body.mailedAt ELSE t
                  IN  Outcome([db EXCEPT !.sessions =
                                  UpdateSession(db.sessions, id,
                                      [status |-> "mailed",
                                       mailedAt |-> Some(mailedAt)])],
                              "ok")

\* PATCH /test-sessions/:id/cancel
PatchCancelHandler(db, id, t) ==
    IF id \notin DOMAIN db.sessions
    THEN Outcome(db, "NotFound")
    ELSE LET session == db.sessions[id]
         IN  IF ~validateStatusTransition(session.status, "cancelled").ok
             THEN Outcome(db, "Conflict")
             ELSE executeTransition(db, id, "cancelled", t)

(***************************************************************************)
(* results.routes.ts                                                       *)
(***************************************************************************)
\* An insert into a table that has no unique key on testSessionId.
InsertResult_NoUniqueKey(rs, row) ==
    [ok |-> TRUE,
     rows |-> rs \cup {[row EXCEPT !.id = row.id + Cardinality(rs)]},
     target |-> ""]

\* prisma.result.create under the unique key on testSessionId: the table
\* afterwards, or the error P2002 (which the error handler maps to 409) with
\* the key that failed.
InsertResult(rs, row) ==
    IF \E r \in rs : r.testSessionId = row.testSessionId
    THEN [ok |-> FALSE, rows |-> rs, target |-> "testSessionId"]
    ELSE [ok |-> TRUE, rows |-> rs \cup {row}, target |-> ""]

(***************************************************************************)
(* results.schemas.ts: the body schemas, which the validator compiler      *)
(* applies before a handler runs; a body that fails gives a ZodError,      *)
(* answered with 400 VALIDATION_ERROR.                                     *)
(***************************************************************************)
\* A value schema without the ceiling.
radonValueSchema_NoMax(valueBqm3) == valueBqm3 >= MIN_RADON_VALUE

radonValueSchema(valueBqm3) ==
    valueBqm3 >= MIN_RADON_VALUE /\ valueBqm3 <= MAX_RADON_VALUE

createResultSchema(body) == radonValueSchema(body.valueBqm3)

\* valueBqm3 is optional.
updateResultSchema(body) ==
    "valueBqm3" \in DOMAIN body => radonValueSchema(body.valueBqm3)

\* labReference: body.labReference; a field left out of the body is stored
\* as null.
LabReferenceOf(body) ==
    IF "labReference" \in DOMAIN body THEN body.labReference ELSE NULL

\* A POST /results that does not look at the status of the session.
PostResultHandler_AnyStatus(db, body, t) ==
    IF ~isValidRadonMeasurement(body.valueBqm3)
    THEN Outcome(db, "BadRequest")
    ELSE IF body.testSessionId \notin DOMAIN db.sessions
    THEN Outcome(db, "NotFound")
    ELSE LET testSession == db.sessions[body.testSessionId]
         IN  IF \E r \in db.results : r.testSessionId = body.testSessionId
             THEN Outcome(db, "Conflict")
             ELSE LET zone == calculateRiskZone(body.valueBqm3)
                      ins == InsertResult(db.results,
                                 [id |-> body.testSessionId,
                                  testSessionId |-> body.testSessionId,
                                  valueBqm3 |-> body.valueBqm3,
                                  zone |-> zone,
                                  labReference |-> LabReferenceOf(body),
                                  isImmutable |-> FALSE,
                                  recordedAt |-> body.recordedAt])
                      db1 == [db EXCEPT !.results = ins.rows]
                  IN  IF ~ins.ok
                      THEN Outcome(db, "P2002")
                      ELSE IF testSession.status # "complete"
                      THEN executeTransition(db1, body.testSessionId, "complete", t)
                      ELSE Outcome(db1, "ok")

\* POST /results.  A Result is identified by its session (the key is unique).
PostResultHandler(db, body, t) ==
    IF ~isValidRadonMeasurement(body.valueBqm3)
    THEN Outcome(db, "BadRequest")
    ELSE IF body.testSessionId \notin DOMAIN db.sessions
    THEN Outcome(db, "NotFound")
    ELSE LET testSession == db.sessions[body.testSessionId]
             allowedStatuses == <<"mailed", "results_pending", "complete">>
         IN  IF ~Includes(allowedStatuses, testSession.status)
             THEN Outcome(db, "BadRequest")
             ELSE IF \E r \in db.results : r.testSessionId = body.testSessionId
             THEN Outcome(db, "Conflict")
             ELSE LET zone == calculateRiskZone(body.valueBqm3)
                      ins == InsertResult(db.results,
                                 [id |-> body.testSessionId,
                                  testSessionId |-> body.testSessionId,
                                  valueBqm3 |-> body.valueBqm3,
                                  zone |-> zone,
                                  labReference |-> LabReferenceOf(body),
                                  isImmutable |-> FALSE,
                                  recordedAt |-> body.recordedAt])
                      db1 == [db EXCEPT !.results = ins.rows]
                  IN  IF ~ins.ok
                      THEN Outcome(db, "P2002")
                      ELSE IF testSession.status # "complete"
                      THEN LET done == executeTransition(db1,
                                           body.testSessionId, "complete", t)
                           IN  done
                      ELSE Outcome(db1, "ok")

\* An update that writes the row anew from the data, the other columns at
\* their defaults.
UpdateResult_Replace(rs, id, data) ==
    {IF r.id = id
     THEN ApplyUpdate([r EXCEPT !.isImmutable = ~r.isImmutable], data)
     ELSE r : r \in rs}

\* prisma.result.update({ where: { id }, data })
UpdateResult(rs, id, data) ==
    {IF r.id = id THEN ApplyUpdate(r, data) ELSE r : r \in rs}

\* An updateData that takes the new value and keeps the zone.
ResultUpdateData_StaleZone(body) ==
    [f \in DOMAIN body \cap {"valueBqm3", "labReference", "recordedAt"} |-> body[f]]

\* updateData of PUT /results/:id: the fields the body carries, and the zone
\* of the new value with the value.
ResultUpdateData(body) ==
    LET fields == (DOMAIN body \cap {"valueBqm3", "labReference", "recordedAt"})
                      \cup (IF "valueBqm3" \in DOMAIN body THEN {"zone"} ELSE {})
    IN  [f \in fields |->
            IF f = "zone" THEN calculateRiskZone(body.valueBqm3) ELSE body[f]]

\* A PUT /results/:id that checks immutability only when the value is to
\* change.
PutResultHandler_ValueOnlyLock(db, id, body) ==
    IF ~(\E r \in db.results : r.id = id)
    THEN Outcome(db, "NotFound")
    ELSE LET existingResult == CHOOSE r \in db.results : r.id = id
         IN  IF existingResult.isImmutable /\ "valueBqm3" \in DOMAIN body
             THEN Outcome(db, "Conflict")
             ELSE IF "valueBqm3" \in DOMAIN body
                     /\ ~isValidRadonMeasurement(body.valueBqm3)
             THEN Outcome(db, "BadRequest")
             ELSE Outcome([db EXCEPT !.results =
                              UpdateResult(db.results, id, ResultUpdateData(body))],
                          "ok")

\* PUT /results/:id
PutResultHandler(db, id, body) ==
    IF ~(\E r \in db.results : r.id = id)
    THEN Outcome(db, "NotFound")
    ELSE LET existingResult == CHOOSE r \in db.results : r.id = id
         IN  IF existingResult.isImmutable
             THEN Outcome(db, "Conflict")
             ELSE IF "valueBqm3" \in DOMAIN body
                     /\ ~isValidRadonMeasurement(body.valueBqm3)
             THEN Outcome(db, "BadRequest")
             ELSE Outcome([db EXCEPT !.results =
                              UpdateResult(db.results, id, ResultUpdateData(body))],
                          "ok")

\* The routes with their body schemas.
PostResultRoute(db, body, t) ==
    IF ~createResultSchema(body)
    THEN Outcome(db, "ValidationError")
    ELSE PostResultHandler(db, body, t)

PutResultRoute(db, id, body) ==
    IF ~updateResultSchema(body)
    THEN Outcome(db, "ValidationError")
    ELSE PutResultHandler(db, id, body)

\* A DELETE /results/:id that does not look for a certificate.
DeleteResultHandler_NoCertificateCheck(db, id) ==
    IF ~(\E r \in db.results : r.id = id)
    THEN Outcome(db, "NotFound")
    ELSE Outcome([db EXCEPT !.results = {r \in db.results : r.id # id}], "ok")

\* DELETE /results/:id
DeleteResultHandler(db, id) ==
    IF ~(\E r \in db.results : r.id = id)
    THEN Outcome(db, "NotFound")
    ELSE IF \E c \in db.certificates : c.resultId = id
    THEN Outcome(db, "Conflict")
    ELSE Outcome([db EXCEPT !.results = {r \in db.results : r.id # id}], "ok")

(***************************************************************************)
(* certificate-number.service.ts.  A certificate number CP-YYYYMMDD-XXXX   *)
(* is the pair of its date segment (the day, which formatDateForCertificate*)
(* writes as eight digits) and its sequence segment, a string of decimal   *)
(* digits kept as the sequence of its digits.                              *)
(***************************************************************************)
RECURSIVE ToDigits(_)
\* Number.prototype.toString() of a natural number.
ToDigits(n) == IF n < 10 THEN <<n>> ELSE Append(ToDigits(n \div 10), n % 10)

RECURSIVE PadStart(_, _)
\* String.prototype.padStart(width, '0')
PadStart(str, width) ==
    IF Len(str) >= width THEN str ELSE PadStart(<<0>> \o str, width)

RECURSIVE ParseInt(_)
\* parseInt(str, 10) of a string of digits.
ParseInt(str) ==
    IF Len(str) = 0 THEN 0
    ELSE 10 * ParseInt(SubSeq(str, 1, Len(str) - 1)) + str[Len(str)]

\* The order of two strings as the database sorts them: at the first place
\* they differ, or the shorter one first when it is a prefix of the other.
StringLess(a, b) ==
    \/ \E i \in 1..Len(a) :
          /\ i <= Len(b)
          /\ a[i] < b[i]
          /\ \A j \in 1..(i - 1) : a[j] = b[j]
    \/ /\ Len(a) < Len(b)
       /\ \A j \in 1..Len(a) : a[j] = b[j]

formatDateForCertificate(date) == date

extractSequenceNumber(certificateNumber) == ParseInt(certificateNumber.seq)

\* An allocation that reads the highest number of all days.
generateCertificateNumber_AllDays(certs, t) ==
    LET dateString == formatDateForCertificate(t)
        lastCertificate ==
            CHOOSE c \in certs :
                \A d \in certs :
                    ~StringLess(c.certificateNumber.seq, d.certificateNumber.seq)
        sequence == IF certs = {}
                    THEN 1
                    ELSE extractSequenceNumber(lastCertificate.certificateNumber) + 1
    IN  [date |-> dateString,
         seq |-> PadStart(ToDigits(sequence), SEQUENCE_PAD_WIDTH)]

\* The number the allocation gives when it reads the table `certs` on day t.
generateCertificateNumber(certs, t) ==
    LET dateString == formatDateForCertificate(t)
        todays == {c \in certs : c.certificateNumber.date = dateString}
        \* findFirst ... orderBy certificateNumber desc
        lastCertificate ==
            CHOOSE c \in todays :
                \A d \in todays :
                    ~StringLess(c.certificateNumber.seq, d.certificateNumber.seq)
        sequence == IF todays = {}
                    THEN 1
                    ELSE extractSequenceNumber(lastCertificate.certificateNumber) + 1
    IN  [date |-> dateString,
         seq |-> PadStart(ToDigits(sequence), SEQUENCE_PAD_WIDTH)]

(***************************************************************************)
(* POST /certificates, as PHASE5_PLAN.md lists the handler.                *)
(***************************************************************************)
\* The certificate type a kit type calls for.
CertTypeOf(kitType) ==
    IF kitType = "long_term" THEN "residential" ELSE "real_estate"

\* The checks made before anything is written: the outcome, "ok" to go on.
CertificateChecks(db, body) ==
    IF ~(\E r \in db.results : r.id = body.resultId)
    THEN "NotFound"
    ELSE IF \E c \in db.certificates : c.resultId = body.resultId
    THEN "Conflict"
    ELSE LET result == CHOOSE r \in db.results : r.id = body.resultId
         IN  IF body.certType # CertTypeOf(db.sessions[result.testSessionId].kitType)
             THEN "BadRequest"
             ELSE "ok"

\* prisma.certificate.create under the unique keys on resultId and on
\* certificateNumber: the table afterwards, or P2002.
InsertCertificate(certs, row) ==
    IF \E c \in certs : c.resultId = row.resultId
    THEN [ok |-> FALSE, rows |-> certs, target |-> "resultId"]
    ELSE IF \E c \in certs : c.certificateNumber = row.certificateNumber
    THEN [ok |-> FALSE, rows |-> certs, target |-> "certificateNumber"]
    ELSE [ok |-> TRUE, rows |-> certs \cup {row}, target |-> ""]

CertificateRow(body, certificateNumber) ==
    [resultId |-> body.resultId,
     certificateNumber |-> certificateNumber,
     certType |-> body.certType,
     status |-> "valid"]

\* prisma.result.update({ where: { id }, data: { isImmutable: true } })
MarkImmutable(rs, resultId) ==
    {IF r.id = resultId THEN [r EXCEPT !.isImmutable = TRUE] ELSE r : r \in rs}

PostCertificateHandler(db, body, t) ==
    LET checks == CertificateChecks(db, body)
    IN  IF checks # "ok"
        THEN Outcome(db, checks)
        ELSE LET certificateNumber == generateCertificateNumber(db.certificates, t)
                 ins == InsertCertificate(db.certificates,
                                          CertificateRow(body, certificateNumber))
             IN  IF ~ins.ok
                 THEN Outcome(db, "P2002")
                 ELSE Outcome([db EXCEPT !.certificates = ins.rows,
                                         !.results = MarkImmutable(db.results,
                                                                   body.resultId)],
                              "ok")

(***************************************************************************)
(* The requests a client can send.                                         *)
(***************************************************************************)
\* The dates a client supplies: one day stands for them all, since no handler
\* reads a supplied date.
SuppliedDays == {0}

NullableDates == {NULL} \cup {Some(d) : d \in SuppliedDays}

RadonValues == {-1, 450, 10001}

Prechecks == {"ok", "NotFound", "BadRequest", "Conflict"}

\* The reads made to address the activation email: both give a row, one of
\* them rejects, or there is no user row.
Lookups == {"ok", "sessionLookupFails", "userLookupFails", "noUser"}

EmailOutcomes == {"sent", "renderError", "notConfigured", "sendError"}

\* Bodies of PUT /test-sessions/:id: status, and retrievedAt and mailedAt
\* each left out, null or a date.
PutBodies ==
    UNION {
        {[status |-> s] : s \in SessionStatus},
        {[status |-> s, retrievedAt |-> r] :
            s \in SessionStatus, r \in NullableDates},
        {[status |-> s, mailedAt |-> m] :
            s \in SessionStatus, m \in NullableDates},
        {[status |-> s, retrievedAt |-> r, mailedAt |-> m] :
            s \in SessionStatus, r \in NullableDates, m \in NullableDates}}

RetrieveBodies == {<<>>} \cup {[retrievedAt |-> d] : d \in SuppliedDays}

MailBodies == {<<>>} \cup {[mailedAt |-> d] : d \in SuppliedDays}

\* A body of POST /results: recordedAt is mandatory, labReference left out.
CreateResultBody(id, v) ==
    [testSessionId |-> id, valueBqm3 |-> v, recordedAt |-> 0]

NoValidation == [ok |-> TRUE, current |-> "", allowed |-> <<>>]

\* What `last` records of a request: the operation, the session (or result)
\* it names, the status it asks for, the measurement it carries, the optional
\* body fields present, the validation made of it by executeTransition and
\* its outcome ("ok" or the error thrown).
Request(op, id, target, value, fields, validation, result) ==
    [op |-> op, id |-> id, target |-> target, value |-> value,
     fields |-> fields, validation |-> validation, result |-> result]

\* A session row as it stands before activation.
OrderedRow(kitType) ==
    [status |-> "ordered",
     kitType |-> kitType,
     activatedAt |-> NULL,
     expectedCompletionDate |-> NULL,
     retrievalDueAt |-> NULL,
     retrievedAt |-> NULL,
     mailedAt |-> NULL]

\* A worker with no request in flight, and the outcome of its last one.
Idle(result) == [pc |-> "idle", result |-> result]

(***************************************************************************)
(* Spec: requests handled one at a time, each handler run to its end.      *)
(* The database starts with no rows but, possibly, sessions in `ordered`,  *)
(* the status STATE_TRANSITIONS starts from.                               *)
(***************************************************************************)
Init ==
    /\ \E ids \in SUBSET SessionIds :
          sessions \in [ids -> {OrderedRow(k) : k \in KitTypes}]
    /\ results = {}
    /\ certificates = {}
    /\ now = 0
    /\ last = Request("start", 0, "", 0, {}, NoValidation, "ok")
    /\ proc = [p \in Procs |-> Idle("none")]
    /\ outbox = {}
    /\ kitOrders = <<>>

Commit(out, request) ==
    /\ sessions' = out.db.sessions
    /\ results' = out.db.results
    /\ certificates' = out.db.certificates
    /\ last' = request
    /\ outbox' = IF "email" \in DOMAIN out /\ out.email
                 THEN outbox \cup {request.id} ELSE outbox
    /\ UNCHANGED <<now, proc, kitOrders>>

Tick ==
    /\ now < MaxNow
    /\ now' = now + 1
    /\ last' = Request("tick", 0, "", 0, {}, NoValidation, "ok")
    /\ UNCHANGED <<sessions, results, certificates, proc, outbox, kitOrders>>

CreateTestSession ==
    \E id \in SessionIds \ DOMAIN sessions, k \in KitTypes,
       precheck \in Prechecks, lookup \in Lookups :
        LET out == CreateTestSessionHandler(Db, id, k, precheck, lookup, now)
        IN  Commit(out, Request("createTestSession", id, "active", 0, {lookup},
                                NoValidation, out.result))

\* sendTestActivatedEmail settles, after the request was answered: the email
\* is sent, or the rendering throws and the handler's catch logs it, or
\* trySendEmail logs that the service is not configured or the send failed.
EmailSettle ==
    \E id \in outbox, outcome \in EmailOutcomes :
        /\ outbox' = outbox \ {id}
        /\ last' = Request("sendTestActivatedEmail", id, "", 0, {},
                           NoValidation, outcome)
        /\ UNCHANGED <<sessions, results, certificates, now, proc, kitOrders>>

ExecuteTransition ==
    \E id \in SessionIds, target \in SessionStatus :
        LET out == executeTransition(Db, id, target, now)
            validation == IF id \in DOMAIN sessions
                          THEN validateStatusTransition(sessions[id].status, target)
                          ELSE NoValidation
        IN  Commit(out, Request("executeTransition", id, target, 0, {},
                                validation, out.result))

PutTestSession ==
    \E id \in SessionIds, body \in PutBodies :
        LET out == PutTestSessionHandler(Db, id, body, now)
        IN  Commit(out, Request("putTestSession", id, body.status, 0,
                                DOMAIN body \ {"status"}, NoValidation, out.result))

PatchRetrieve ==
    \E id \in SessionIds, body \in RetrieveBodies :
        LET out == PatchRetrieveHandler(Db, id, body, now)
        IN  Commit(out, Request("patchRetrieve", id, "", 0, DOMAIN body,
                                NoValidation, out.result))

PatchMail ==
    \E id \in SessionIds, body \in MailBodies :
        LET out == PatchMailHandler(Db, id, body, now)
        IN  Commit(out, Request("patchMail", id, "mailed", 0, DOMAIN body,
                                NoValidation, out.result))

PatchCancel ==
    \E id \in SessionIds :
        LET out == PatchCancelHandler(Db, id, now)
        IN  Commit(out, Request("patchCancel", id, "cancelled", 0, {},
                                NoValidation, out.result))

PostResult ==
    \E id \in SessionIds, v \in RadonValues :
        LET out == PostResultRoute(Db, CreateResultBody(id, v), now)
        IN  Commit(out, Request("postResult", id, "complete", v, {},
                                NoValidation, out.result))

PostCertificate ==
    \E id \in SessionIds, ct \in CertTypes :
        LET out == PostCertificateHandler(Db, [resultId |-> id, certType |-> ct], now)
        IN  Commit(out, Request("postCertificate", id, "", 0, {},
                                NoValidation, out.result))

Next ==
    \/ Tick
    \/ CreateTestSession
    \/ EmailSettle
    \/ ExecuteTransition
    \/ PutTestSession
    \/ PatchRetrieve
    \/ PatchMail
    \/ PatchCancel
    \/ PostResult
    \/ PostCertificate

Spec == Init /\ [][Next]_vars

(***************************************************************************)
(* SpecExec: executeTransition calls in flight together.  A call reads the *)
(* session and validates (ExecFind), and later writes (ExecUpdate); the    *)
(* calls of other workers may run between the two.                         *)
(***************************************************************************)
InitExec ==
    /\ \E ids \in SUBSET SessionIds :
          sessions \in [ids -> {OrderedRow(k) : k \in KitTypes}]
    /\ results = {}
    /\ certificates = {}
    /\ now = 0
    /\ last = Request("start", 0, "", 0, {}, NoValidation, "ok")
    /\ proc = [p \in Procs |-> Idle("none")]
    /\ outbox = {}
    /\ kitOrders = <<>>

\* findUnique, the not-found check, validateStatusTransition and updateData.
ExecFind(p) ==
    /\ proc[p].pc = "idle"
    /\ \E id \in SessionIds, newStatus \in SessionStatus :
          IF id \notin DOMAIN sessions
          THEN proc' = [proc EXCEPT ![p] = Idle("Conflict")]
          ELSE LET session == sessions[id]
               IN  IF ~validateStatusTransition(session.status, newStatus).ok
                   THEN proc' = [proc EXCEPT ![p] = Idle("Conflict")]
                   ELSE proc' = [proc EXCEPT ![p] =
                                    [pc |-> "exec_update",
                                     id |-> id,
                                     session |-> session,
                                     updateData |->
                                         TransitionUpdateData(session, newStatus, now),
                                     result |-> "pending"]]
    /\ UNCHANGED <<sessions, results, certificates, now, last, outbox, kitOrders>>

\* prisma.testSession.update({ where: { id }, data: updateData })
ExecUpdate(p) ==
    /\ proc[p].pc = "exec_update"
    /\ sessions' = UpdateSession(sessions, proc[p].id, proc[p].updateData)
    /\ proc' = [proc EXCEPT ![p] = Idle("ok")]
    /\ UNCHANGED <<results, certificates, now, last, outbox, kitOrders>>

NextExec ==
    \/ Tick
    \/ \E p \in Procs : ExecFind(p)
    \/ \E p \in Procs : ExecUpdate(p)

SpecExec == InitExec /\ [][NextExec]_vars

(***************************************************************************)
(* SpecCert: POST /certificates requests in flight together.  A request    *)
(* makes its checks (CertBegin), allocates its number (CertNumber),        *)
(* inserts the certificate (CertCreate) and marks the result immutable     *)
(* (CertImmutable): four awaited calls, between which others may run.      *)
(*                                                                         *)
(* The database starts as the routes leave it after NumResults sessions    *)
(* were each activated, mailed, set to results_pending and given a result. *)
(***************************************************************************)
CertSessionIds == 1..NumResults

EmptyDb == [sessions |-> <<>>, results |-> {}, certificates |-> {}]

\* The database after session `id` went from activation to its result.
WithCompletedSession(db, id, kitType) ==
    LET d1 == CreateTestSessionHandler(db, id, kitType, "ok", "ok", 0).db
        d2 == executeTransition(d1, id, "retrieval_due", 0).db
        d3 == PatchMailHandler(d2, id, <<>>, 0).db
        d4 == executeTransition(d3, id, "results_pending", 0).db
    IN  PostResultHandler(d4, CreateResultBody(id, 450), 0).db

RECURSIVE CompletedDb(_, _)
CompletedDb(n, kitOf) ==
    IF n = 0 THEN EmptyDb
    ELSE WithCompletedSession(CompletedDb(n - 1, kitOf), n, kitOf[n])

InitCert ==
    /\ \E kitOf \in [CertSessionIds -> KitTypes] :
          LET db == CompletedDb(NumResults, kitOf)
          IN  /\ sessions = db.sessions
              /\ results = db.results
              /\ certificates = db.certificates
    /\ now = 0
    /\ last = Request("start", 0, "", 0, {}, NoValidation, "ok")
    /\ proc = [p \in Procs |-> Idle("none")]
    /\ outbox = {}
    /\ kitOrders = <<>>

CertBegin(p) ==
    /\ proc[p].pc = "idle"
    /\ \E id \in CertSessionIds, ct \in CertTypes :
          LET body == [resultId |-> id, certType |-> ct]
              checks == CertificateChecks(Db, body)
          IN  IF checks # "ok"
              THEN proc' = [proc EXCEPT ![p] = Idle(checks)]
              ELSE proc' = [proc EXCEPT ![p] =
                               [pc |-> "cert_number", body |-> body,
                                result |-> "pending"]]
    /\ UNCHANGED <<sessions, results, certificates, now, last, outbox, kitOrders>>

CertNumber(p) ==
    /\ proc[p].pc = "cert_number"
    /\ proc' = [proc EXCEPT ![p] =
                   [pc |-> "cert_create", body |-> proc[p].body,
                    certificateNumber |->
                        generateCertificateNumber(certificates, now),
                    result |-> "pending"]]
    /\ UNCHANGED <<sessions, results, certificates, now, last, outbox, kitOrders>>

CertCreate(p) ==
    /\ proc[p].pc = "cert_create"
    /\ LET ins == InsertCertificate(certificates,
                      CertificateRow(proc[p].body, proc[p].certificateNumber))
       IN  IF ~ins.ok
           THEN /\ proc' = [proc EXCEPT ![p] =
                               [pc |-> "idle", result |-> "P2002",
                                target |-> ins.target]]
                /\ UNCHANGED certificates
           ELSE /\ certificates' = ins.rows
                /\ proc' = [proc EXCEPT ![p] =
                               [pc |-> "cert_immutable", body |-> proc[p].body,
                                result |-> "pending"]]
    /\ UNCHANGED <<sessions, results, now, last, outbox, kitOrders>>

CertImmutable(p) ==
    /\ proc[p].pc = "cert_immutable"
    /\ results' = MarkImmutable(results, proc[p].body.resultId)
    /\ proc' = [proc EXCEPT ![p] = Idle("ok")]
    /\ UNCHANGED <<sessions, certificates, now, last, outbox, kitOrders>>

NextCert ==
    \/ Tick
    \/ \E p \in Procs : CertBegin(p)
    \/ \E p \in Procs : CertNumber(p)
    \/ \E p \in Procs : CertCreate(p)
    \/ \E p \in Procs : CertImmutable(p)

SpecCert == InitCert /\ [][NextCert]_vars

(***************************************************************************)
(* SpecResult: POST /results requests in flight together for one session.  *)
(* A request validates the measurement and reads the session (ResBegin),   *)
(* looks for a result of the session (ResCheck), inserts its own           *)
(* (ResCreate), then runs executeTransition: its read and validation       *)
(* (ResFind) and its write (ExecUpdate).                                   *)
(***************************************************************************)
ResultValues == RadonValues \cup {700}

\* The database after session `id` was activated, mailed and taken to `stage`.
WithReturnedSession(db, id, kitType, stage) ==
    LET d1 == CreateTestSessionHandler(db, id, kitType, "ok", "ok", 0).db
        d2 == executeTransition(d1, id, "retrieval_due", 0).db
        d3 == PatchMailHandler(d2, id, <<>>, 0).db
        d4 == executeTransition(d3, id, "results_pending", 0).db
        d5 == executeTransition(d4, id, "complete", 0).db
    IN  CASE stage = "mailed" -> d3
          [] stage = "results_pending" -> d4
          [] OTHER -> d5

InitResult ==
    /\ \E id \in SessionIds, kitType \in KitTypes,
          stage \in {"mailed", "results_pending", "complete"} :
          LET db == WithReturnedSession(EmptyDb, id, kitType, stage)
          IN  /\ sessions = db.sessions
              /\ results = db.results
              /\ certificates = db.certificates
    /\ now = 0
    /\ last = Request("start", 0, "", 0, {}, NoValidation, "ok")
    /\ proc = [p \in Procs |-> Idle("none")]
    /\ outbox = {}
    /\ kitOrders = <<>>

ResBegin(p) ==
    /\ proc[p].pc = "idle"
    /\ \E id \in SessionIds, v \in ResultValues :
          LET body == CreateResultBody(id, v)
          IN  IF ~createResultSchema(body)
              THEN proc' = [proc EXCEPT ![p] = Idle("ValidationError")]
              ELSE IF ~isValidRadonMeasurement(body.valueBqm3)
              THEN proc' = [proc EXCEPT ![p] = Idle("BadRequest")]
              ELSE IF id \notin DOMAIN sessions
              THEN proc' = [proc EXCEPT ![p] = Idle("NotFound")]
              ELSE IF ~Includes(<<"mailed", "results_pending", "complete">>,
                                sessions[id].status)
              THEN proc' = [proc EXCEPT ![p] = Idle("BadRequest")]
              ELSE proc' = [proc EXCEPT ![p] =
                               [pc |-> "res_check", body |-> body,
                                testSession |-> sessions[id],
                                result |-> "pending"]]
    /\ UNCHANGED <<sessions, results, certificates, now, last, outbox, kitOrders>>

ResCheck(p) ==
    /\ proc[p].pc = "res_check"
    /\ IF \E r \in results : r.testSessionId = proc[p].body.testSessionId
       THEN proc' = [proc EXCEPT ![p] = Idle("Conflict")]
       ELSE proc' = [proc EXCEPT ![p].pc = "res_create"]
    /\ UNCHANGED <<sessions, results, certificates, now, last, outbox, kitOrders>>

ResCreate(p) ==
    /\ proc[p].pc = "res_create"
    /\ LET body == proc[p].body
           ins == InsertResult(results,
                      [id |-> body.testSessionId,
                       testSessionId |-> body.testSessionId,
                       valueBqm3 |-> body.valueBqm3,
                       zone |-> calculateRiskZone(body.valueBqm3),
                       labReference |-> LabReferenceOf(body),
                       isImmutable |-> FALSE,
                       recordedAt |-> body.recordedAt])
       IN  IF ~ins.ok
           THEN /\ proc' = [proc EXCEPT ![p] = Idle("P2002")]
                /\ UNCHANGED results
           ELSE /\ results' = ins.rows
                /\ proc' = [proc EXCEPT ![p] =
                               IF proc[p].testSession.status # "complete"
                               THEN [pc |-> "res_find",
                                     id |-> body.testSessionId,
                                     result |-> "pending"]
                               ELSE Idle("ok")]
    /\ UNCHANGED <<sessions, certificates, now, last, outbox, kitOrders>>

\* executeTransition(body.testSessionId, 'complete'): its read and validation.
ResFind(p) ==
    /\ proc[p].pc = "res_find"
    /\ LET id == proc[p].id
           session == sessions[id]
       IN  IF ~validateStatusTransition(session.status, "complete").ok
           THEN proc' = [proc EXCEPT ![p] = Idle("Conflict")]
           ELSE proc' = [proc EXCEPT ![p] =
                            [pc |-> "exec_update",
                             id |-> id,
                             session |-> session,
                             updateData |->
                                 TransitionUpdateData(session, "complete", now),
                             result |-> "pending"]]
    /\ UNCHANGED <<sessions, results, certificates, now, last, outbox, kitOrders>>

NextResult ==
    \/ Tick
    \/ \E p \in Procs : ResBegin(p)
    \/ \E p \in Procs : ResCheck(p)
    \/ \E p \in Procs : ResCreate(p)
    \/ \E p \in Procs : ResFind(p)
    \/ \E p \in Procs : ExecUpdate(p)

SpecResult == InitResult /\ [][NextResult]_vars

(***************************************************************************)
(* SpecLab: the requests on a result and its certificate, handled one at a *)
(* time, for a session that went from activation to its result.           *)
(***************************************************************************)
\* The measurements sent: the ones of RadonValues and both ends of the range.
LabValues == RadonValues \cup {MIN_RADON_VALUE, MAX_RADON_VALUE}

\* Bodies of PUT /results/:id: each of valueBqm3, labReference and recordedAt
\* left out or given.
PutResultBodies ==
    LET values == {<<>>} \cup {[valueBqm3 |-> v] : v \in {-1, 700, 10001}}
        labs == {<<>>} \cup {[labReference |-> l] : l \in {NULL, Some("LAB-1")}}
        dates == {<<>>} \cup {[recordedAt |-> d] : d \in SuppliedDays}
        Merge(a, b) == [f \in DOMAIN a \cup DOMAIN b |->
                           IF f \in DOMAIN a THEN a[f] ELSE b[f]]
    IN  {Merge(Merge(v, l), d) : v \in values, l \in labs, d \in dates}

InitLab ==
    /\ \E id \in SessionIds, kitType \in KitTypes :
          LET db == WithCompletedSession(EmptyDb, id, kitType)
          IN  /\ sessions = db.sessions
              /\ results = db.results
              /\ certificates = db.certificates
    /\ now = 0
    /\ last = Request("start", 0, "", 0, {}, NoValidation, "ok")
    /\ proc = [p \in Procs |-> Idle("none")]
    /\ outbox = {}
    /\ kitOrders = <<>>

LabPostResult ==
    \E id \in SessionIds, v \in LabValues :
        LET out == PostResultRoute(Db, CreateResultBody(id, v), now)
        IN  Commit(out, Request("postResult", id, "complete", v, {},
                                NoValidation, out.result))

LabPutResult ==
    \E id \in SessionIds, body \in PutResultBodies :
        LET out == PutResultRoute(Db, id, body)
        IN  Commit(out, Request("putResult", id, "",
                                IF "valueBqm3" \in DOMAIN body
                                THEN body.valueBqm3 ELSE 0,
                                DOMAIN body, NoValidation, out.result))

LabDeleteResult ==
    \E id \in SessionIds :
        LET out == DeleteResultHandler(Db, id)
        IN  Commit(out, Request("deleteResult", id, "", 0, {},
                                NoValidation, out.result))

LabPostCertificate ==
    \E id \in SessionIds, ct \in CertTypes :
        LET out == PostCertificateHandler(Db, [resultId |-> id, certType |-> ct], now)
        IN  Commit(out, Request("postCertificate", id, "", 0, {},
                                NoValidation, out.result))

NextLab ==
    \/ Tick
    \/ LabPostResult
    \/ LabPutResult
    \/ LabDeleteResult
    \/ LabPostCertificate

SpecLab == InitLab /\ [][NextLab]_vars

(***************************************************************************)
(* SpecIssue: certificates generated one after another, each POST          *)
(* /certificates run to its end before the next, for NumResults results.   *)
(***************************************************************************)
InitIssue ==
    /\ \E kitOf \in [CertSessionIds -> KitTypes] :
          LET db == CompletedDb(NumResults, kitOf)
          IN  /\ sessions = db.sessions
              /\ results = db.results
              /\ certificates = db.certificates
    /\ now = 0
    /\ last = Request("start", 0, "", 0, {}, NoValidation, "ok")
    /\ proc = [p \in Procs |-> Idle("none")]
    /\ outbox = {}
    /\ kitOrders = <<>>

IssueCertificate ==
    \E id \in CertSessionIds, ct \in CertTypes :
        LET out == PostCertificateHandler(Db, [resultId |-> id, certType |-> ct], now)
        IN  Commit(out, Request("postCertificate", id, "", 0, {},
                                NoValidation, out.result))

NextIssue ==
    \/ Tick
    \/ IssueCertificate

SpecIssue == InitIssue /\ [][NextIssue]_vars

(***************************************************************************)
(* SpecClassify: the risk classification applied to one measurement, drawn *)
(* from the values within MaxMargin of the bounds of the valid range and   *)
(* of the three thresholds.                                                *)
(***************************************************************************)
ZoneInputs ==
    {b + d : b \in {MIN_RADON_VALUE, THRESHOLD_GUIDELINE, THRESHOLD_CAUTION,
                    THRESHOLD_ACTION, MAX_RADON_VALUE},
             d \in (0 - MaxMargin)..MaxMargin}

InitClassify ==
    /\ sessions = <<>>
    /\ results = {}
    /\ certificates = {}
    /\ now = 0
    /\ \E v \in ZoneInputs :
          last = Request("input", 0, "", v, {}, NoValidation, "pending")
    /\ proc = [p \in Procs |-> Idle("none")]
    /\ outbox = {}
    /\ kitOrders = <<>>

\* The measurement is validated and classified, as POST /results does it.
Classify ==
    /\ last.op = "input"
    /\ last' = Request("calculateRiskZone", 0, calculateRiskZone(last.value),
                       last.value, {}, NoValidation,
                       IF isValidRadonMeasurement(last.value)
                       THEN "ok" ELSE "BadRequest")
    /\ UNCHANGED <<sessions, results, certificates, now, proc, outbox, kitOrders>>

NextClassify == Classify

SpecClassify == InitClassify /\ [][NextClassify]_vars

(***************************************************************************)
(* certificate-verification.service.ts.  A Date is its time value, here in *)
(* whole days since 1970-01-01 (the time of day is carried unchanged); the *)
(* getters and setters convert between it and the calendar fields as       *)
(* ECMAScript defines them (months count from 0).                          *)
(***************************************************************************)
RESIDENTIAL_VALIDITY_YEARS == 2

REAL_ESTATE_VALIDITY_DAYS == 90

DayFromYear(y) ==
    365 * (y - 1970) + ((y - 1969) \div 4) - ((y - 1901) \div 100)
        + ((y - 1601) \div 400)

InLeapYear(y) == (y % 4 = 0) /\ ((y % 100 # 0) \/ (y % 400 = 0))

\* The day of the year on which month m (0..11; 12 is the next January) starts.
MonthStart(y, m) ==
    <<0, 31, 59, 90, 120, 151, 181, 212, 243, 273, 304, 334, 365>>[m + 1]
        + (IF m >= 2 /\ InLeapYear(y) THEN 1 ELSE 0)

getFullYear(t) ==
    CHOOSE y \in (1970 + t \div 366)..(1970 + t \div 365) :
        DayFromYear(y) <= t /\ t < DayFromYear(y + 1)

getMonth(t) ==
    LET y == getFullYear(t)
        dayInYear == t - DayFromYear(y)
    IN  CHOOSE m \in 0..11 :
            MonthStart(y, m) <= dayInYear /\ dayInYear < MonthStart(y, m + 1)

getDate(t) ==
    LET y == getFullYear(t)
    IN  t - DayFromYear(y) - MonthStart(y, getMonth(t)) + 1

\* MakeDay: a date beyond the end of the month runs on into the next.
MakeDay(year, month, date) ==
    LET ym == year + (month \div 12)
        mn == month % 12
    IN  DayFromYear(ym) + MonthStart(ym, mn) + date - 1

setFullYear(t, year) == MakeDay(year, getMonth(t), getDate(t))

setDate(t, date) == MakeDay(getFullYear(t), getMonth(t), date)

\* A calculateValidUntil that counts two years as 730 days.
calculateValidUntil_FixedDays(certType, validFrom) ==
    [validFrom |-> validFrom,
     validUntil |-> IF certType = "residential"
                    THEN validFrom + 365 * RESIDENTIAL_VALIDITY_YEARS
                    ELSE validFrom + REAL_ESTATE_VALIDITY_DAYS]

\* calculateValidUntil: the two Date objects after the call, the argument
\* and the copy of it that was set and returned.
calculateValidUntil(certType, validFrom) ==
    LET validUntil == validFrom
    IN  [validFrom |-> validFrom,
         validUntil |->
            IF certType = "residential"
            THEN setFullYear(validUntil,
                             getFullYear(validUntil) + RESIDENTIAL_VALIDITY_YEARS)
            ELSE setDate(validUntil,
                         getDate(validUntil) + REAL_ESTATE_VALIDITY_DAYS)]

(***************************************************************************)
(* SpecValid: calculateValidUntil applied to one start date, drawn from    *)
(* the MaxDays days that follow 2024-01-01, and one certificate type.      *)
(***************************************************************************)
ValidFromDays == DayFromYear(2024)..(DayFromYear(2024) + MaxDays)

InitValid ==
    /\ sessions = <<>>
    /\ results = {}
    /\ certificates = {}
    /\ now = 0
    /\ \E certType \in CertTypes, validFrom \in ValidFromDays :
          last = Request("input", 0, certType, validFrom, {}, NoValidation, 0)
    /\ proc = [p \in Procs |-> Idle("none")]
    /\ outbox = {}
    /\ kitOrders = <<>>

\* One call: `last` holds the type, the argument as the call left it and
\* the date returned.
ValidUntil ==
    /\ last.op = "input"
    /\ LET out == calculateValidUntil(last.target, last.value)
       IN  last' = Request("calculateValidUntil", 0, last.target,
                           out.validFrom, {}, NoValidation, out.validUntil)
    /\ UNCHANGED <<sessions, results, certificates, now, proc, outbox, kitOrders>>

NextValid == ValidUntil

SpecValid == InitValid /\ [][NextValid]_vars

(***************************************************************************)
(* SpecNumber: numbers allocated one after another on one day, each stored *)
(* before the next is generated.  The table holds at first the             *)
(* certificates of the day that carry the highest sequences, within        *)
(* MaxMargin of the first sequence of more than SEQUENCE_PAD_WIDTH digits  *)
(* (the lower ones, all of SEQUENCE_PAD_WIDTH digits, come before these in *)
(* both orders), or none.                                                  *)
(***************************************************************************)
FirstWideSequence == 10 ^ SEQUENCE_PAD_WIDTH

NumberRow(sequence, t) ==
    CertificateRow([resultId |-> sequence, certType |-> "residential"],
                   [date |-> formatDateForCertificate(t),
                    seq |-> PadStart(ToDigits(sequence), SEQUENCE_PAD_WIDTH)])

InitNumber ==
    /\ sessions = <<>>
    /\ results = {}
    /\ \E lo, hi \in (FirstWideSequence - MaxMargin)..(FirstWideSequence + MaxMargin) :
          certificates = {NumberRow(k, 0) : k \in lo..hi}
    /\ now = 0
    /\ last = Request("start", 0, "", 0, {}, NoValidation, "ok")
    /\ proc = [p \in Procs |-> Idle("none")]
    /\ outbox = {}
    /\ kitOrders = <<>>

\* generateCertificateNumber and prisma.certificate.create for a result that
\* has no certificate; `last` holds the sequence returned.
AllocateNumber ==
    /\ Cardinality(certificates) <= 2 * MaxMargin
    /\ LET certificateNumber == generateCertificateNumber(certificates, now)
           resultId == CHOOSE k \in 1..(FirstWideSequence + 4 * MaxMargin) :
                           \A c \in certificates : c.resultId # k
           ins == InsertCertificate(certificates,
                      CertificateRow([resultId |-> resultId,
                                      certType |-> "residential"],
                                     certificateNumber))
       IN  /\ certificates' = ins.rows
           /\ last' = Request("generateCertificateNumber", resultId, "",
                              extractSequenceNumber(certificateNumber), {},
                              NoValidation, IF ins.ok THEN "ok" ELSE "P2002")
    /\ UNCHANGED <<sessions, results, now, proc, outbox, kitOrders>>

NextNumber == AllocateNumber

SpecNumber == InitNumber /\ [][NextNumber]_vars

(***************************************************************************)
(* stripe-webhooks.routes.ts, stripe-webhook.service.ts and                *)
(* updateKitOrderFromPayment.  The route answers as soon as the event is   *)
(* verified and leaves handleStripeWebhook running: the handler goes on in *)
(* `proc`, one step for each database call it awaits.                      *)
(***************************************************************************)
\* The one kit order there is, and the payment intents events name: the
\* order's and one no order has.
KitOrderIds == {1}

PaymentIntentIds == {1, 2}

PendingOrder(paymentIntentId) ==
    [stripePaymentIntentId |-> paymentIntentId,
     paymentStatus |-> "pending",
     paidAt |-> NULL]

EventTypes ==
    {"payment_intent.succeeded", "payment_intent.payment_failed",
     "payment_intent.canceled", "charge.refunded",
     "payment_intent.created", "customer.created"}

\* The payment status the handler of an event type writes.
PaymentStatusOf(type) ==
    CASE type = "payment_intent.succeeded"      -> "paid"
      [] type = "payment_intent.payment_failed" -> "failed"
      [] OTHER                                  -> "refunded"

\* The event types whose handler calls updateKitOrderFromPayment; for
\* charge.refunded, only when the charge names a payment intent.
UpdatesOrder(event) ==
    \/ event.type \in {"payment_intent.succeeded", "payment_intent.payment_failed"}
    \/ event.type = "charge.refunded" /\ event.paymentIntent # NULL

Events ==
    {[type |-> type, paymentIntent |-> pi] :
        type \in EventTypes,
        pi \in {Some(i) : i \in PaymentIntentIds}}
    \cup {[type |-> "charge.refunded", paymentIntent |-> NULL]}

Signatures == {"valid", "invalid", "missing"}

\* A handler whose catch blocks throw the error again.
HandlerCatch_Rethrow(error) ==
    [pc |-> "idle", result |-> "rejected", error |-> error]

\* catch (error) { console.error(...) }: the error is logged and the
\* handler's promise resolves.
HandlerCatch(error) ==
    [pc |-> "idle", result |-> "resolved", error |-> error]

HandlerDone == [pc |-> "idle", result |-> "resolved", error |-> "none"]

\* prisma.kitOrder.update({ where: { id }, data: updateData })
updateData(status, t) ==
    IF status = "paid"
    THEN [paymentStatus |-> status, paidAt |-> Some(t)]
    ELSE [paymentStatus |-> status]

\* POST /stripe/webhook: the signature is verified, handleStripeWebhook is
\* called and not awaited, and { received: true } is sent.  The handler has
\* run to its first database call, or to its end when it makes none.
StripeWebhook(p) ==
    /\ proc[p].pc = "idle"
    /\ \E signature \in Signatures, event \in Events :
          LET request(result) ==
                  Request("stripeWebhook",
                          IF event.paymentIntent = NULL THEN 0
                          ELSE event.paymentIntent[1],
                          event.type, 0, {},
                          [ok |-> signature = "valid", current |-> signature,
                           allowed |-> <<"valid">>],
                          result)
          IN  IF signature # "valid"
              THEN /\ last' = request("BadRequest")
                   /\ proc' = proc
              ELSE /\ last' = request("ok")
                   /\ proc' = [proc EXCEPT ![p] =
                         IF UpdatesOrder(event)
                         THEN [pc |-> "wh_find", result |-> "pending",
                               paymentIntentId |-> event.paymentIntent[1],
                               status |-> PaymentStatusOf(event.type)]
                         ELSE HandlerDone]
    /\ UNCHANGED <<sessions, results, certificates, now, outbox, kitOrders>>

\* updateKitOrderFromPayment: findFirst by stripePaymentIntentId.  The read
\* fails, or finds no order and the function throws, or finds the order.
WebhookFind(p) ==
    /\ proc[p].pc = "wh_find"
    /\ \E read \in {"ok", "DbError"} :
          LET found == {id \in DOMAIN kitOrders :
                          kitOrders[id].stripePaymentIntentId
                              = proc[p].paymentIntentId}
          IN  proc' = [proc EXCEPT ![p] =
                 IF read # "ok" THEN HandlerCatch(read)
                 ELSE IF found = {} THEN HandlerCatch("KitOrderNotFound")
                 ELSE [pc |-> "wh_update", result |-> "pending",
                       paymentIntentId |-> proc[p].paymentIntentId,
                       status |-> proc[p].status,
                       kitOrder |-> CHOOSE id \in found : TRUE]]
    /\ UNCHANGED <<sessions, results, certificates, now, last, outbox, kitOrders>>

\* updateKitOrderFromPayment: kitOrder.update, which fails or writes; then
\* the handler reads the order again for the email, which it sends without
\* awaiting it, and returns.
WebhookUpdate(p) ==
    /\ proc[p].pc = "wh_update"
    /\ \E write \in {"ok", "DbError"} :
          IF write # "ok"
          THEN /\ proc' = [proc EXCEPT ![p] = HandlerCatch(write)]
               /\ kitOrders' = kitOrders
          ELSE /\ proc' = [proc EXCEPT ![p] = HandlerDone]
               /\ kitOrders' =
                     [kitOrders EXCEPT ![proc[p].kitOrder] =
                         ApplyUpdate(@, updateData(proc[p].status, now))]
    /\ UNCHANGED <<sessions, results, certificates, now, last, outbox>>

InitWebhook ==
    /\ sessions = <<>>
    /\ results = {}
    /\ certificates = {}
    /\ now = 0
    /\ last = Request("start", 0, "", 0, {}, NoValidation, "ok")
    /\ proc = [p \in Procs |-> Idle("none")]
    /\ outbox = {}
    /\ kitOrders = [id \in KitOrderIds |-> PendingOrder(id)]

NextWebhook ==
    \/ \E p \in Procs : StripeWebhook(p)
    \/ \E p \in Procs : WebhookFind(p)
    \/ \E p \in Procs : WebhookUpdate(p)

SpecWebhook == InitWebhook /\ [][NextWebhook]_vars

(***************************************************************************)
(* The properties checked.                                                 *)
(***************************************************************************)
\* The transition table as the specification states it (section 4.1).
Claim_TransitionTable ==
    [s \in SessionStatus |->
        CASE s = "ordered"         -> {"active", "cancelled"}
          [] s = "active"          -> {"retrieval_due", "cancelled"}
          [] s = "retrieval_due"   -> {"mailed", "expired", "cancelled"}
          [] s = "mailed"          -> {"results_pending", "cancelled"}
          [] s = "results_pending" -> {"complete", "cancelled"}
          [] OTHER                 -> {}]

Claim_Terminal == {"complete", "expired", "cancelled"}

Claim_Allowed(current, target) ==
    current = target \/ target \in Claim_TransitionTable[current]

Claim_SeqToSet(seq) == {seq[i] : i \in 1..Len(seq)}

Claim_HasResult(id) == \E r \in results : r.testSessionId = id

Claim_DatesNull(s) ==
    s.activatedAt = NULL /\ s.expectedCompletionDate = NULL /\ s.retrievalDueAt = NULL

Claim_DatesSet(s) ==
    s.activatedAt # NULL /\ s.expectedCompletionDate # NULL /\ s.retrievalDueAt # NULL

\* C1: every change of a session's status, by whatever operation, goes from
\* a status to one of its allowed targets in the transition table.
C1_StatusMovesAlongTable ==
    [][\A id \in DOMAIN sessions :
          sessions'[id].status # sessions[id].status
              => sessions'[id].status \in Claim_TransitionTable[sessions[id].status]
      ]_vars

\* C2: a session in complete, expired or cancelled keeps its status under
\* requests handled one after another: getNextAllowedStatuses is empty for
\* the three, and every status-changing request that asks for another
\* status fails.
C2_TerminalIsFinal ==
    /\ [](\A s \in Claim_Terminal : getNextAllowedStatuses(s) = <<>>)
    /\ [][\A id \in DOMAIN sessions :
             sessions[id].status \in Claim_Terminal
                 => /\ sessions'[id].status = sessions[id].status
                    /\ (/\ last'.id = id
                        /\ last'.op \in {"executeTransition", "putTestSession",
                                         "patchMail", "patchCancel"}
                        /\ last'.target # sessions[id].status)
                           => last'.result # "ok"
         ]_vars

\* C2 witness: executeTransition was refused on a session in a terminal status.
C2_Witness ==
    /\ last.op = "executeTransition"
    /\ last.result = "Conflict"
    /\ last.id \in DOMAIN sessions
    /\ sessions[last.id].status \in Claim_Terminal

\* C3: the write of an executeTransition call overwrites exactly the status
\* the call read and validated, whatever other calls run on the session.
C3_WriteOverwritesValidatedStatus ==
    [][\A p \in Procs :
          (proc[p].pc = "exec_update" /\ proc'[p].pc = "idle")
              => sessions[proc[p].id].status = proc[p].session.status
      ]_vars

\* C4: POST /results with a valid value for a session without a Result
\* succeeds and leaves the session complete, from mailed, results_pending
\* and complete alike, and creates the Result.
C4_PostResultCompletes ==
    [][(/\ last'.op = "postResult"
        /\ last'.id \in DOMAIN sessions
        /\ sessions[last'.id].status \in {"mailed", "results_pending", "complete"}
        /\ isValidRadonMeasurement(last'.value)
        /\ ~Claim_HasResult(last'.id))
           => /\ last'.result = "ok"
              /\ sessions'[last'.id].status = "complete"
              /\ \E r \in results' : r.testSessionId = last'.id
      ]_vars

\* C5: a POST /results that ends in an error has persisted no Result and has
\* left the session as it was.
C5_FailedPostResultWritesNothing ==
    [][(last'.op = "postResult" /\ last'.result # "ok")
           => results' = results /\ sessions' = sessions
      ]_vars

C7_ValidationMatchesTable ==
    /\ [](\A c \in SessionStatus, t \in SessionStatus :
             LET v == validateStatusTransition(c, t)
             IN  /\ v.ok <=> Claim_Allowed(c, t)
                 /\ ~v.ok => /\ v.current = c
                             /\ Claim_SeqToSet(v.allowed) = Claim_TransitionTable[c])
    /\ [][(last'.op = "executeTransition" /\ last'.id \in DOMAIN sessions)
             => LET c == sessions[last'.id].status
                IN  /\ last'.validation = validateStatusTransition(c, last'.target)
                    /\ (last'.result = "ok") <=> Claim_Allowed(c, last'.target)
                    /\ (last'.result # "ok") => last'.result = "Conflict"
         ]_vars

\* C7 witness: executeTransition refused mailed -> complete, its error naming
\* the current status.
C7_Witness ==
    /\ last.op = "executeTransition"
    /\ ~last.validation.ok
    /\ last.validation.current = "mailed"
    /\ last.target = "complete"

\* C8: a status change that is not allowed from the current status, asked
\* through executeTransition, PUT or cancel, fails with a Conflict and leaves
\* the whole database as it was, the dates of the PUT body included.
C8_RefusedChangeWritesNothing ==
    [][(/\ last'.op \in {"executeTransition", "putTestSession", "patchCancel"}
        /\ last'.id \in DOMAIN sessions
        /\ ~Claim_Allowed(sessions[last'.id].status, last'.target))
           => /\ last'.result = "Conflict"
              /\ sessions' = sessions
              /\ results' = results
              /\ certificates' = certificates
      ]_vars

\* C8 witness: a PUT that carried retrievedAt and mailedAt was refused.
C8_Witness ==
    /\ last.op = "putTestSession"
    /\ last.result = "Conflict"
    /\ last.fields = {"retrievedAt", "mailedAt"}
    /\ last.id \in DOMAIN sessions
    /\ sessions[last.id].retrievedAt = NULL

\* C9: in every state, every Certificate's Result is immutable.
C9_CertificateLocksResult ==
    \A c \in certificates :
        \E r \in results : r.id = c.resultId /\ r.isImmutable

\* C10: certificate generations running together on one day are all given
\* distinct, consecutive sequence numbers: none is lost to a clash of numbers,
\* no two certificates share a number, and each day's sequences are 1..k.
C10_ConcurrentNumbersConsecutive ==
    /\ \A p \in Procs :
          ~(proc[p].pc = "idle" /\ proc[p].result = "P2002"
            /\ proc[p].target = "certificateNumber")
    /\ \A c \in certificates, d \in certificates :
          c.certificateNumber = d.certificateNumber => c = d
    /\ \A day \in Days :
          LET todays == {c \in certificates : c.certificateNumber.date = day}
          IN  {extractSequenceNumber(c.certificateNumber) : c \in todays}
                  = 1..Cardinality(todays)

\* C13: POST /results creates a Result only for a session in mailed,
\* results_pending or complete; for a session in any other status the request
\* is rejected, no Result is created and the session is left as it was.
C13_ResultOnlyAfterMailing ==
    [][(last'.op = "postResult" /\ last'.id \in DOMAIN sessions)
          => LET status == sessions[last'.id].status
                 allowed == {"mailed", "results_pending", "complete"}
             IN  /\ (\E r \in results' : r \notin results) => status \in allowed
                 /\ status \notin allowed
                       => /\ last'.result # "ok"
                          /\ results' = results
                          /\ sessions' = sessions
      ]_vars

\* C13 witness: a valid measurement was refused for an active session.
C13_Witness ==
    /\ last.op = "postResult"
    /\ last.result = "BadRequest"
    /\ isValidRadonMeasurement(last.value)
    /\ last.id \in DOMAIN sessions
    /\ sessions[last.id].status = "active"
    /\ results = {}

\* C16: executeTransition for any pair other than ordered -> active, the
\* pair of equal statuses included, changes no field but the status; a request
\* for active on an active session does not stamp the activation again.
C16_OnlyStatusChanges ==
    [][(/\ last'.op = "executeTransition"
        /\ last'.id \in DOMAIN sessions
        /\ ~(sessions[last'.id].status = "ordered" /\ last'.target = "active"))
           => /\ \A f \in DOMAIN sessions[last'.id] \ {"status"} :
                    sessions'[last'.id][f] = sessions[last'.id][f]
              /\ last'.result = "ok" => sessions'[last'.id].status = last'.target
              /\ results' = results
              /\ certificates' = certificates
      ]_vars

\* C16 witness: active was asked, and granted, for a session activated on an
\* earlier day.
C16_Witness ==
    /\ last.op = "executeTransition"
    /\ last.result = "ok"
    /\ last.target = "active"
    /\ last.id \in DOMAIN sessions
    /\ sessions[last.id].status = "active"
    /\ sessions[last.id].activatedAt = Some(0)
    /\ now = 1

\* C18: executeTransition for a session id that does not exist fails with a
\* not-found error, not the conflict error of a refused transition, and
\* writes nothing.
C18_MissingSessionIsNotFound ==
    [][(last'.op = "executeTransition" /\ last'.id \notin DOMAIN sessions)
          => /\ last'.result = "NotFound"
             /\ sessions' = sessions
      ]_vars

\* The classification as the specification states it (section 4.3).
Claim_Zone(v) ==
    IF v < 200 THEN "below_guideline"
    ELSE IF v < 600 THEN "caution"
    ELSE IF v < 800 THEN "action_required"
    ELSE "urgent_action"

\* C20: calculateRiskZone gives below_guideline under 200, caution from 200
\* and under 600, action_required from 600 and under 800, urgent_action from
\* 800; isValidRadonMeasurement holds exactly from 0 to 10000.
C20_RiskZoneThresholds ==
    last.op = "calculateRiskZone"
        => /\ last.target = Claim_Zone(last.value)
           /\ (last.result = "ok") <=> (0 <= last.value /\ last.value <= 10000)

\* C20 witness: 600 was classified, as action_required.
C20_Witness ==
    /\ last.op = "calculateRiskZone"
    /\ last.value = 600
    /\ last.target = "action_required"
    /\ last.result = "ok"

\* C11: in every state, whatever the interleaving of POST /results requests
\* for a session, the session has at most one Result; an insert attempted
\* when the session has a Result fails with 409 and creates nothing.
C11_OneResultPerSession ==
    /\ [](\A id \in DOMAIN sessions :
             Cardinality({r \in results : r.testSessionId = id}) <= 1)
    /\ [][\A p \in Procs :
             (/\ proc[p].pc \in {"res_check", "res_create"}
              /\ proc'[p] # proc[p]
              /\ Claim_HasResult(proc[p].body.testSessionId))
                 => /\ proc'[p].pc = "idle"
                    /\ StatusCode(proc'[p].result) = 409
                    /\ results' = results
         ]_vars

\* C11 witness: a request that found no Result when it looked was refused by
\* the unique key when it inserted.
C11_Witness ==
    \E p \in Procs :
        /\ proc[p].pc = "idle"
        /\ proc[p].result = "P2002"
        /\ Cardinality(results) = 1

\* C12 as stated: PUT /results/:id, whatever its body, and DELETE
\* /results/:id fail with Conflict for a Result whose isImmutable is true, and
\* leave the Result as it was.
C12_AlwaysConflict ==
    [][(/\ last'.op \in {"putResult", "deleteResult"}
        /\ \E r \in results : r.id = last'.id /\ r.isImmutable)
           => /\ last'.result = "Conflict"
              /\ results' = results
      ]_vars

\* C12 as amended: PUT /results/:id, whatever fields its body carries, and
\* DELETE /results/:id leave a Result whose isImmutable is true as it was and
\* fail with Conflict, except that a PUT whose valueBqm3 the route's schema
\* does not admit fails with the validation error, before the handler runs.
C12_ImmutableResultLocked ==
    [][(/\ last'.op \in {"putResult", "deleteResult"}
        /\ \E r \in results : r.id = last'.id /\ r.isImmutable)
           => /\ results' = results
              /\ last'.result \in {"Conflict", "ValidationError"}
              /\ last'.result = "ValidationError"
                    => /\ "valueBqm3" \in last'.fields
                       /\ ~radonValueSchema(last'.value)
      ]_vars

\* C12 witness: a PUT carrying only labReference was refused for an
\* immutable Result.
C12_Witness ==
    /\ last.op = "putResult"
    /\ last.fields = {"labReference"}
    /\ last.result = "Conflict"
    /\ \E r \in results : r.id = last.id /\ r.isImmutable

\* C14: in every state the zone of every stored Result is calculateRiskZone
\* of its value.
C14_ZoneFollowsValue ==
    \A r \in results : r.zone = calculateRiskZone(r.valueBqm3)

\* C14 witness: a PUT changed the value of a Result to 700, and with it the
\* zone.
C14_Witness ==
    /\ last.op = "putResult"
    /\ last.result = "ok"
    /\ \E r \in results :
          r.id = last.id /\ r.valueBqm3 = 700 /\ r.zone = "action_required"

\* k as four decimal digits.
Claim_FourDigits(k) ==
    <<k \div 1000, (k \div 100) % 10, (k \div 10) % 10, k % 10>>

C17_EmailNeverFailsActivation ==
    [][/\ (/\ last'.op = "createTestSession"
           /\ last'.id \in DOMAIN sessions' \ DOMAIN sessions)
              => /\ last'.result = "ok"
                 /\ last'.fields = {"ok"} => last'.id \in outbox'
       /\ last'.op = "sendTestActivatedEmail" => sessions' = sessions
      ]_vars

\* C21: whenever a session is activated, by the ordered -> active transition
\* or at its creation, activatedAt is the time of the request and the two
\* dates stored with it are 91 and 80 days after it for long_term, 4 and 2
\* days after it for real_estate_short.
C21_DatesFromActivation ==
    [][\A id \in DOMAIN sessions' :
          (/\ sessions'[id].activatedAt # NULL
           /\ (id \notin DOMAIN sessions \/ sessions[id].activatedAt = NULL))
              => LET s == sessions'[id]
                     a == s.activatedAt[1]
                 IN  /\ a = now
                     /\ s.kitType = "long_term"
                            => /\ s.expectedCompletionDate = Some(a + 91)
                               /\ s.retrievalDueAt = Some(a + 80)
                     /\ s.kitType = "real_estate_short"
                            => /\ s.expectedCompletionDate = Some(a + 4)
                               /\ s.retrievalDueAt = Some(a + 2)
      ]_vars

\* C21 witness: executeTransition activated an ordered short-term session on
\* day 1.
C21_Witness ==
    /\ last.op = "executeTransition"
    /\ last.target = "active"
    /\ last.result = "ok"
    /\ now = 1
    /\ last.id \in DOMAIN sessions
    /\ sessions[last.id].kitType = "real_estate_short"
    /\ sessions[last.id].activatedAt = Some(1)
    /\ sessions[last.id].retrievalDueAt = Some(3)

Claim_Rank(status) ==
    CASE status = "ordered"         -> 1
      [] status = "active"          -> 2
      [] status = "retrieval_due"   -> 3
      [] status = "mailed"          -> 4
      [] status = "results_pending" -> 5
      [] OTHER                      -> 6

\* C28: with requests handled one at a time, every change of a session's
\* status goes to a status later in the order ordered, active, retrieval_due,
\* mailed, results_pending, then complete / expired / cancelled; so a status
\* left is never entered again and a session changes status at most five
\* times.
C28_StatusOnlyAdvances ==
    [][\A id \in DOMAIN sessions :
          sessions'[id].status # sessions[id].status
              => Claim_Rank(sessions'[id].status) > Claim_Rank(sessions[id].status)
      ]_vars

\* C28 witness: a session reached results_pending from mailed.
C28_Witness ==
    /\ last.op \in {"executeTransition", "putTestSession"}
    /\ last.result = "ok"
    /\ last.target = "results_pending"
    /\ last.id \in DOMAIN sessions
    /\ sessions[last.id].status = "results_pending"
    /\ sessions[last.id].mailedAt # NULL

\* C29: with requests handled one at a time, an activatedAt,
\* expectedCompletionDate or retrievalDueAt that is set keeps its value.
C29_ActivationDatesKept ==
    [][\A id \in DOMAIN sessions :
          \A f \in {"activatedAt", "expectedCompletionDate", "retrievalDueAt"} :
              sessions[id][f] # NULL => sessions'[id][f] = sessions[id][f]
      ]_vars

\* C29 witness: a PUT on a later day changed the status and retrievedAt of
\* an activated session.
C29_Witness ==
    /\ last.op = "putTestSession"
    /\ last.result = "ok"
    /\ "retrievedAt" \in last.fields
    /\ now = 1
    /\ last.id \in DOMAIN sessions
    /\ sessions[last.id].activatedAt = Some(0)
    /\ sessions[last.id].status = "retrieval_due"

\* C25: DELETE /results/:id of an existing Result removes it exactly when no
\* Certificate references it, and otherwise fails with Conflict and leaves
\* it; a deletion leaves the session, its status and its dates, as it was.
C25_DeleteOnlyWithoutCertificate ==
    [][(last'.op = "deleteResult" /\ \E r \in results : r.id = last'.id)
          => LET certified == \E c \in certificates : c.resultId = last'.id
             IN  /\ (last'.result = "ok") <=> ~certified
                 /\ ~certified
                       => results' = {r \in results : r.id # last'.id}
                 /\ certified
                       => last'.result = "Conflict" /\ results' = results
                 /\ sessions' = sessions
                 /\ certificates' = certificates
      ]_vars

\* C25 witness: the Result of a complete session was deleted.
C25_Witness ==
    /\ last.op = "deleteResult"
    /\ last.result = "ok"
    /\ results = {}
    /\ last.id \in DOMAIN sessions
    /\ sessions[last.id].status = "complete"

\* C30: a Result is created with isImmutable false; POST, PUT and DELETE
\* /results never change the flag or the session of a stored Result, PUT
\* changing at most valueBqm3, zone, labReference and recordedAt; and a flag
\* that is true stays true.
C30_ResultsApiKeepsFlag ==
    [][/\ \A r \in results' :
             (\A q \in results : q.id # r.id) => ~r.isImmutable
       /\ last'.op \in {"postResult", "putResult", "deleteResult"}
             => \A q \in results, r \in results' :
                    q.id = r.id
                       => \A f \in DOMAIN q \ {"valueBqm3", "zone",
                                                "labReference", "recordedAt"} :
                              r[f] = q[f]
       /\ \A q \in results :
             q.isImmutable => \E r \in results' : r.id = q.id /\ r.isImmutable
      ]_vars

\* C30 witness: a PUT changed the value and the labReference of a Result that
\* is not immutable.
C30_Witness ==
    /\ last.op = "putResult"
    /\ last.result = "ok"
    /\ {"valueBqm3", "labReference"} \subseteq last.fields
    /\ \E r \in results :
          /\ r.id = last.id
          /\ ~r.isImmutable
          /\ r.valueBqm3 = 700
          /\ r.labReference = Some("LAB-1")

\* C23: every stored Result has 0 <= valueBqm3 <= 10000; a POST /results or
\* a PUT /results/:id carrying a value outside the range is answered with a
\* validation error (400) and writes nothing; and a value that is accepted
\* is stored as sent.
C23_ValueInRange ==
    /\ \A r \in results : r.valueBqm3 \in 0..10000
    /\ [][/\ \A r \in results' : r.valueBqm3 \in 0..10000
           /\ LET carries == \/ last'.op = "postResult"
                              \/ /\ last'.op = "putResult"
                                 /\ "valueBqm3" \in last'.fields
              IN  /\ (carries /\ last'.value \notin 0..10000)
                        => /\ last'.result = "ValidationError"
                           /\ StatusCode(last'.result) = 400
                           /\ results' = results
                           /\ sessions' = sessions
                           /\ certificates' = certificates
                  /\ (carries /\ last'.result = "ok")
                        => \E q \in results' :
                               q.id = last'.id /\ q.valueBqm3 = last'.value
          ]_vars

\* C23 witness: a PUT of 10001 on a stored Result of 10000 was rejected and
\* the Result still holds 10000.
C23_Witness ==
    /\ last.op = "putResult"
    /\ last.value = 10001
    /\ last.result = "ValidationError"
    /\ \E r \in results : r.id = last.id /\ r.valueBqm3 = 10000

\* The day number of a calendar date (month 1..12), for the dates of a claim.
Claim_Day(y, m, d) == DayFromYear(y) + MonthStart(y, m - 1) + d - 1

\* C22: calculateValidUntil leaves its argument as it was and returns, for
\* real_estate, the day 90 days after validFrom and, for residential, the
\* same month and day two years later (the 1st of March for a 29th of
\* February, which the later year does not have); 2026-02-26 gives
\* 2028-02-26 and 2026-05-27.
C22_ValidUntil ==
    [][last'.op = "calculateValidUntil"
          => LET certType == last.target
                 validFrom == last.value
                 validUntil == last'.result
                 y == getFullYear(validFrom)
                 m == getMonth(validFrom) + 1
                 d == getDate(validFrom)
             IN  /\ last'.value = validFrom
                 /\ validFrom = Claim_Day(y, m, d)
                 /\ certType = "real_estate" => validUntil = validFrom + 90
                 /\ certType = "residential"
                       => /\ validUntil = IF m = 2 /\ d = 29
                                           THEN Claim_Day(y + 2, 3, 1)
                                           ELSE Claim_Day(y + 2, m, d)
                          /\ validUntil - validFrom \in {730, 731}
                 /\ validFrom = Claim_Day(2026, 2, 26)
                       => validUntil = IF certType = "residential"
                                       THEN Claim_Day(2028, 2, 26)
                                       ELSE Claim_Day(2026, 5, 27)
      ]_vars

\* C22 witness: a residential certificate valid from 2026-02-26, which is day
\* 20510 since 1970-01-01, is valid until 2028-02-26, day 21240.
C22_Witness ==
    /\ last.op = "calculateValidUntil"
    /\ last.target = "residential"
    /\ last.value = 20510
    /\ last.value = Claim_Day(2026, 2, 26)
    /\ last.result = 21240
    /\ last.result = Claim_Day(2028, 2, 26)

\* C27 as stated: generateCertificateNumber returns the sequence one greater
\* than the numerically largest sequence stored for the day (1 when none is
\* stored), which is therefore not stored yet and is accepted by the unique
\* key.
C27_NextAfterNumericMax ==
    [][last'.op = "generateCertificateNumber"
          => LET todays == {c \in certificates : c.certificateNumber.date = now}
                 seqs == {extractSequenceNumber(c.certificateNumber) : c \in todays}
                 largest == IF seqs = {} THEN 0
                            ELSE CHOOSE k \in seqs : \A j \in seqs : j <= k
             IN  /\ last'.value = largest + 1
                 /\ last'.value \notin seqs
                 /\ last'.result = "ok"
      ]_vars

\* C26: handleStripeWebhook never rejects: each of its steps that fails (the
\* lookup finds no kit order for the payment intent, or the lookup or the
\* update fails) ends it resolved and changes no kit order; and the route
\* answers every verified event, whatever its type, with the
\* acknowledgement, in the step that starts the handler, and no step of the
\* handler changes that answer.
C26_WebhookNeverFails ==
    [][/\ \A p \in Procs :
             /\ proc'[p].result # "rejected"
             /\ (/\ proc[p].pc \in {"wh_find", "wh_update"}
                 /\ proc'[p].pc = "idle"
                 /\ proc'[p].error # "none")
                   => /\ proc'[p].result = "resolved"
                      /\ kitOrders' = kitOrders
             /\ (/\ proc[p].pc = "wh_find"
                 /\ proc'[p] # proc[p]
                 /\ \A id \in DOMAIN kitOrders :
                       kitOrders[id].stripePaymentIntentId
                           # proc[p].paymentIntentId)
                   => /\ proc'[p].pc = "idle"
                      /\ proc'[p].result = "resolved"
                      /\ proc'[p].error # "none"
             /\ (proc[p].pc \in {"wh_find", "wh_update"} /\ proc'[p] # proc[p])
                   => last' = last
       /\ (last' # last /\ last'.op = "stripeWebhook" /\ last'.validation.ok)
             => /\ last'.result = "ok"
                /\ kitOrders' = kitOrders
      ]_vars

\* C26 witness: an event for a payment intent no kit order has was
\* acknowledged, and its handler has ended resolved after the failed lookup,
\* the kit order still pending.
C26_Witness ==
    /\ last.op = "stripeWebhook"
    /\ last.target = "payment_intent.succeeded"
    /\ last.id = 2
    /\ last.result = "ok"
    /\ \E p \in Procs :
          /\ proc[p].pc = "idle"
          /\ proc[p].result = "resolved"
          /\ proc[p].error = "KitOrderNotFound"
    /\ \A id \in DOMAIN kitOrders : kitOrders[id] = PendingOrder(id)

=============================================================================
